---- MODULE Spec2Model ----
(***************************************************************************)
(* A model of srclib's file-backed store (store/fs_store.go) and of its    *)
(* tree-level def-query index.                                             *)
(*                                                                         *)
(* Strings are sequences of character codes (97 is 'a'), so that Go's      *)
(* byte-wise string order, path.Join/Dir/Base and the record framing of    *)
(* the codec are computed rather than assumed.                             *)
(*                                                                         *)
(* The module holds several specifications over one set of variables:      *)
(*   Spec         the unit store's data files (def.dat, ref.dat)           *)
(*   SpecIndex    the tree-level def-query index (Build, getByQuery)       *)
(*   SpecReady    the index's readiness over Builds and Reads              *)
(*   SpecTree     the tree store's manifests (Import, Units)               *)
(*   SpecHandles  the file handles the operations open and close           *)
(*   SpecRepos    the multi-repo store's listing (Import, Repos)           *)
(*   SpecFetch    the Fetch, Seek and Decode calls of random-access reads  *)
(*   SpecDefs     Covers and Defs of the tree-level index                  *)
(*   SpecRace     threads that query one index at the same time            *)
(* Each specification leaves the variables of the others untouched.        *)
(***************************************************************************)
EXTENDS Integers, Sequences, FiniteSets, TLC

VARIABLES
    defDat,     \* def.dat of the unit store: [exists, bytes]
    refDat,     \* ref.dat of the unit store: [exists, bytes]
    imported,   \* whether fsUnitStore.Import has run on this unit store
    inDefs,     \* the defs handed to writeDefs, in the caller's order
    inRefs,     \* the refs handed to writeRefs, in the caller's order
    wRefs,      \* the refs in the order sort.Sort left them in writeRefs
    wDefOfs,    \* the byte offsets writeDefs returned
    wFbr,       \* the fileByteRanges writeRefs returned
    wRefOfs,    \* the byte offsets writeRefs returned
    res,        \* what the last read operation returned
    xs,         \* the per-unit def-query indices handed to defQueryTreeIndex.Build
    mt,         \* x.mt of the defQueryTreeIndex: the MAFSA, Units and Values
    ready,      \* x.ready
    counter,    \* c_defQueryTreeIndex_getByQuery
    qres,       \* what the last getByQuery returned
    last,       \* the last Build or Read of the index and what it returned: [op, out]
    tfs,        \* the VFS of the tree store: [root, files]
    tUnits,     \* the manifests of the units imported successfully, the last per (Type, Name)
    tInit,      \* whether an Import(nil, data) has succeeded
    tFailed,    \* whether an Import of a unit has failed
    tCount,     \* how many Imports of a unit were called
    tres,       \* what the last operation of the tree store returned
    hStack,     \* the calls in progress, innermost last: [op, pc, defers, last, iter, err]
    hHandles,   \* the file handles of the operation: [open, closes, depth]
    hLast,      \* the operation that returned last
    rStored,    \* the repos of the multi-repo store
    rres,       \* what the last Repos returned
    fLog,       \* the calls the last random-access read made on its file, in order
    fres,       \* the last random-access read: [op, items, fetcher, failAt, out]
    dres,       \* the last Covers and Defs of the tree-level index: [fs, cov, out, map]
    cpc,        \* where each querying thread is: "idle" or "loaded" (inside the counter's ++)
    ctmp,       \* the value of the counter each thread read
    ccalls      \* how many getByQuery calls each thread has made

uvars == <<defDat, refDat, imported, inDefs, inRefs, wRefs, wDefOfs, wFbr, wRefOfs, res>>

ivars == <<xs, mt, ready, counter, qres, last>>

tvars == <<tfs, tUnits, tInit, tFailed, tCount, tres>>

hvars == <<hStack, hHandles, hLast>>

rvars == <<rStored, rres>>

fvars == <<fLog, fres>>

qvars == <<dres, cpc, ctmp, ccalls>>

vars == <<uvars, ivars, tvars, hvars, rvars, fvars, qvars>>

\* ------------------------------------------------------------------------
\* Bounds

\* The largest number of records (defs plus refs) of one graph.Output.
MaxRecs == 3

\* The largest number of getByQuery calls counted.
MaxCalls == 2

\* ------------------------------------------------------------------------
\* Strings

\* Go's string order: byte-wise lexicographic, a proper prefix sorting first.
StrLess(a, b) ==
    \E k \in 1..Len(b) :
        /\ \A j \in 1..(k - 1) : j <= Len(a) /\ a[j] = b[j]
        /\ (k > Len(a) \/ a[k] < b[k])

\* The sequences over S of length at most n.
SeqsUpTo(S, n) == UNION {[1..k -> S] : k \in 0..n}

\* The sum of a sequence of integers.
RECURSIVE SumSeq(_)
SumSeq(s) == IF s = <<>> THEN 0 ELSE Head(s) + SumSeq(Tail(s))

\* ------------------------------------------------------------------------
\* The records and the codec's framing

\* The defs of the inputs: paths "p1", "p2", "p", names "n", "nn", "".
DefValues ==
    { [Path |-> <<112, 49>>, Name |-> <<110>>],
      [Path |-> <<112, 50>>, Name |-> <<110, 110>>],
      [Path |-> <<112>>,     Name |-> <<>>] }

\* The refs of the inputs: files "", "a", "b"; two refs of file "a"
\* share (File, Start, End) and differ in DefPath only.
RefValues ==
    { [File |-> <<>>,       Start |-> 1, End |-> 2, DefPath |-> <<112>>],
      [File |-> <<97>>,     Start |-> 1, End |-> 2, DefPath |-> <<112>>],
      [File |-> <<97>>,     Start |-> 1, End |-> 2, DefPath |-> <<113, 113>>],
      [File |-> <<97>>,     Start |-> 1, End |-> 3, DefPath |-> <<112>>],
      [File |-> <<97>>,     Start |-> 2, End |-> 3, DefPath |-> <<112>>],
      [File |-> <<98>>,     Start |-> 1, End |-> 2, DefPath |-> <<112>>] }

\* The file names a read may ask for: those of RefValues and "c", which no
\* ref has.
FileNames == {r.File : r \in RefValues} \cup {<<99>>}

\* Codec.NewEncoder(w).Encode(def): a self-delimiting record, each string
\* framed by its length.
EncodeDef(d) == <<Len(d.Path)>> \o d.Path \o <<Len(d.Name)>> \o d.Name

\* Codec.NewEncoder(w).Encode(ref).
EncodeRef(r) ==
    <<Len(r.File)>> \o r.File \o <<r.Start, r.End, Len(r.DefPath)>> \o r.DefPath

\* The bytes of b from offset o (0-based) on, n of them at most.
Slice(b, o, n) ==
    [i \in 1..(IF Len(b) - o < n THEN (IF Len(b) - o < 0 THEN 0 ELSE Len(b) - o) ELSE n)
        |-> b[o + i]]

\* Codec.NewDecoder(r).Decode(&def) with the reader at offset o of b:
\* io.EOF at the end of the file, an error on a cut record, else the def and
\* the number of bytes read.
DecodeDef(b, o) ==
    IF o >= Len(b) THEN [out |-> "EOF"]
    ELSE LET pl == b[o + 1] IN
         IF o + 1 + pl + 1 > Len(b) THEN [out |-> "err"]
         ELSE LET nl == b[o + 1 + pl + 1] IN
              IF o + 1 + pl + 1 + nl > Len(b) THEN [out |-> "err"]
              ELSE [out |-> "ok",
                    v   |-> [Path |-> Slice(b, o + 1, pl),
                             Name |-> Slice(b, o + 1 + pl + 1, nl)],
                    n   |-> 1 + pl + 1 + nl]

\* Codec.NewDecoder(r).Decode(&ref) with the reader at offset o of b.
DecodeRef(b, o) ==
    IF o >= Len(b) THEN [out |-> "EOF"]
    ELSE LET fl == b[o + 1] IN
         IF o + 1 + fl + 3 > Len(b) THEN [out |-> "err"]
         ELSE LET dl == b[o + 1 + fl + 3] IN
              IF o + 1 + fl + 3 + dl > Len(b) THEN [out |-> "err"]
              ELSE [out |-> "ok",
                    v   |-> [File    |-> Slice(b, o + 1, fl),
                             Start   |-> b[o + 1 + fl + 1],
                             End     |-> b[o + 1 + fl + 2],
                             DefPath |-> Slice(b, o + 1 + fl + 3, dl)],
                    n   |-> 1 + fl + 3 + dl]

\* ------------------------------------------------------------------------
\* Filters (no filters is <<>>)

\* defFilters(fs).SelectDef(def) for a list of ByDefPath filters.
SelectDef(fs, d) == \A i \in 1..Len(fs) : d.Path = fs[i]

\* refFilters(fs).SelectRef(ref) for a list of ByFiles filters.
SelectRef(fs, r) == \A i \in 1..Len(fs) : r.File = fs[i]

\* ------------------------------------------------------------------------
\* Maps (Go's map[string]...): functions over the keys present

EmptyMap == <<>>

MapPut(m, k, v) == [x \in (DOMAIN m) \cup {k} |-> IF x = k THEN v ELSE m[x]]

\* m[k] of a Go map of slices: the nil slice for a missing key.
MapGet(m, k) == IF k \in DOMAIN m THEN m[k] ELSE <<>>

\* ------------------------------------------------------------------------
\* fsUnitStore: writing

\* The loop of writeDefs: ofs[i] is the offset before the i-th def is encoded.
RECURSIVE writeDefsLoop(_, _, _, _)
writeDefsLoop(defs, o, bytes, ofs) ==
    IF defs = <<>> THEN [bytes |-> bytes, ofs |-> ofs]
    ELSE LET e == EncodeDef(Head(defs)) IN
         writeDefsLoop(Tail(defs), o + Len(e), bytes \o e, Append(ofs, o))

\* A writeDefs that writes the defs last to first.
writeDefs_reversed(defs) ==
    writeDefsLoop([i \in 1..Len(defs) |-> defs[Len(defs) + 1 - i]], 0, <<>>, <<>>)

\* fsUnitStore.writeDefs: the bytes of def.dat and the offsets returned.
writeDefs(defs) == writeDefsLoop(defs, 0, <<>>, <<>>)

\* refsByFileStartEnd.Less.
RefLess(a, b) ==
    IF a.File = b.File
    THEN IF a.Start = b.Start THEN a.End < b.End ELSE a.Start < b.Start
    ELSE StrLess(a.File, b.File)

\* A writeRefs that does not sort.
SortedPerms_unsorted(refs) == {refs}

\* What sort.Sort(refsByFileStartEnd(refs)) may leave: sort.Sort is not
\* stable, so any permutation in which no ref is Less than one before it.
SortedPerms(refs) ==
    LET n == Len(refs)
        perms == {[i \in 1..n |-> refs[p[i]]] : p \in Permutations(1..n)}
    IN {s \in perms : \A i \in 1..n : \A j \in (i + 1)..n : ~RefLess(s[j], s[i])}

\* One turn of the loop of writeRefs over the (sorted) refs.
writeRefsStep(st, ref) ==
    LET newFile == st.lastFile # ref.File
        fbr1 == IF newFile /\ st.lastFile # <<>>
                THEN MapPut(st.fbr, st.lastFile, st.lfbr) ELSE st.fbr
        lfbr1 == IF newFile THEN <<st.o>> ELSE st.lfbr
        e == EncodeRef(ref)
    IN [o        |-> st.o + Len(e),
        bytes    |-> st.bytes \o e,
        ofs      |-> Append(st.ofs, st.o),
        fbr      |-> fbr1,
        lastFile |-> ref.File,
        lfbr     |-> Append(lfbr1, Len(e))]

RECURSIVE writeRefsLoop(_, _)
writeRefsLoop(st, refs) ==
    IF refs = <<>> THEN st ELSE writeRefsLoop(writeRefsStep(st, Head(refs)), Tail(refs))

\* fsUnitStore.writeRefs after its sort.Sort: the bytes of ref.dat, the
\* offsets and the fileByteRanges returned.
writeRefs(sorted) ==
    LET st == writeRefsLoop([o |-> 0, bytes |-> <<>>, ofs |-> <<>>, fbr |-> EmptyMap,
                             lastFile |-> <<>>, lfbr |-> <<>>], sorted)
    IN [bytes |-> st.bytes,
        ofs   |-> st.ofs,
        fbr   |-> IF st.lastFile # <<>>
                  THEN MapPut(st.fbr, st.lastFile, st.lfbr) ELSE st.fbr]

\* ------------------------------------------------------------------------
\* fsUnitStore: reading

\* The loop of Defs: decode to io.EOF, keep what the filters select.
RECURSIVE DefsLoop(_, _, _, _)
DefsLoop(b, o, fs, acc) ==
    LET d == DecodeDef(b, o) IN
    IF d.out = "EOF" THEN [out |-> "ok", defs |-> acc]
    ELSE IF d.out = "err" THEN [out |-> "err", defs |-> <<>>]
    ELSE DefsLoop(b, o + d.n, fs, IF SelectDef(fs, d.v) THEN Append(acc, d.v) ELSE acc)

\* fsUnitStore.Defs.
Defs(f, fs) ==
    IF ~f.exists THEN [out |-> "err", defs |-> <<>>] ELSE DefsLoop(f.bytes, 0, fs, <<>>)

\* The loop of readDefs: n counts the bytes decoded so far.
RECURSIVE readDefsLoop(_, _, _, _)
readDefsLoop(b, n, defs, ofs) ==
    LET d == DecodeDef(b, n) IN
    IF d.out = "EOF" THEN [out |-> "ok", defs |-> defs, ofs |-> ofs]
    ELSE IF d.out = "err" THEN [out |-> "err", defs |-> <<>>, ofs |-> <<>>]
    ELSE readDefsLoop(b, n + d.n, Append(defs, d.v), Append(ofs, n))

\* A readDefs that numbers the records instead of counting their bytes.
readDefs_counts(f) ==
    LET r == readDefsLoop(f.bytes, 0, <<>>, <<>>) IN
    IF ~f.exists THEN [out |-> "err", defs |-> <<>>, ofs |-> <<>>]
    ELSE [out |-> r.out, defs |-> r.defs, ofs |-> [i \in 1..Len(r.ofs) |-> i - 1]]

\* fsUnitStore.readDefs.
readDefs(f) ==
    IF ~f.exists THEN [out |-> "err", defs |-> <<>>, ofs |-> <<>>]
    ELSE readDefsLoop(f.bytes, 0, <<>>, <<>>)

\* The loop of Refs.
RECURSIVE RefsLoop(_, _, _, _)
RefsLoop(b, o, fs, acc) ==
    LET d == DecodeRef(b, o) IN
    IF d.out = "EOF" THEN [out |-> "ok", refs |-> acc]
    ELSE IF d.out = "err" THEN [out |-> "err", refs |-> <<>>]
    ELSE RefsLoop(b, o + d.n, fs, IF SelectRef(fs, d.v) THEN Append(acc, d.v) ELSE acc)

\* fsUnitStore.Refs.
Refs(f, fs) ==
    IF ~f.exists THEN [out |-> "err", refs |-> <<>>] ELSE RefsLoop(f.bytes, 0, fs, <<>>)

\* One turn of the loop of readRefs, for the ref decoded at offset st.o from
\* n bytes.
readRefsStep(st, ref, n) ==
    LET lastFileRefStartOffset ==
            IF ref.File \in DOMAIN st.fbrs
            THEN st.fbrs[ref.File][Len(st.fbrs[ref.File])] ELSE 0
        fbrs1 == IF st.lastFile # <<>> /\ ref.File # st.lastFile
                 THEN MapPut(st.fbrs, st.lastFile,
                             Append(MapGet(st.fbrs, st.lastFile), st.o - lastFileRefStartOffset))
                 ELSE st.fbrs
    IN [o        |-> st.o + n,
        refs     |-> Append(st.refs, ref),
        ofs      |-> Append(st.ofs, st.o),
        fbrs     |-> MapPut(fbrs1, ref.File,
                            Append(MapGet(fbrs1, ref.File), st.o - lastFileRefStartOffset)),
        lastFile |-> ref.File]

\* The loop of readRefs: decode to io.EOF.
RECURSIVE readRefsLoop(_, _)
readRefsLoop(b, st) ==
    LET d == DecodeRef(b, st.o) IN
    IF d.out = "EOF" THEN [out |-> "ok", st |-> st]
    ELSE IF d.out = "err" THEN [out |-> "err", st |-> st]
    ELSE readRefsLoop(b, readRefsStep(st, d.v, d.n))

\* fsUnitStore.readRefs: the refs, the fileByteRanges and the offsets.
readRefs(f) ==
    IF ~f.exists THEN [out |-> "err", refs |-> <<>>, fbrs |-> EmptyMap, ofs |-> <<>>]
    ELSE LET r == readRefsLoop(f.bytes, [o |-> 0, refs |-> <<>>, ofs |-> <<>>,
                                         fbrs |-> EmptyMap, lastFile |-> <<>>])
             st == r.st
             lastFileRefStartOffset ==
                 IF st.lastFile \in DOMAIN st.fbrs
                 THEN st.fbrs[st.lastFile][Len(st.fbrs[st.lastFile])] ELSE 0
         IN IF r.out = "err"
            THEN [out |-> "err", refs |-> <<>>, fbrs |-> EmptyMap, ofs |-> <<>>]
            ELSE [out |-> "ok", refs |-> st.refs, ofs |-> st.ofs,
                  fbrs |-> IF st.lastFile # <<>>
                           THEN MapPut(st.fbrs, st.lastFile,
                                       Append(MapGet(st.fbrs, st.lastFile),
                                              st.o - lastFileRefStartOffset))
                           ELSE st.fbrs]

\* The inner loop of refsAtByteRanges: k refs decoded one after the other
\* from offset o; any decode error, io.EOF included, ends the read.
RECURSIVE decodeRefsAt(_, _, _, _, _)
decodeRefsAt(b, o, k, fs, acc) ==
    IF k = 0 THEN [out |-> "ok", refs |-> acc]
    ELSE LET d == DecodeRef(b, o) IN
         IF d.out # "ok" THEN [out |-> "err", refs |-> <<>>]
         ELSE decodeRefsAt(b, o + d.n, k - 1, fs,
                           IF SelectRef(fs, d.v) THEN Append(acc, d.v) ELSE acc)

\* The outer loop of refsAtByteRanges: rangeReader seeks to br.start().
RECURSIVE refsAtByteRangesLoop(_, _, _, _)
refsAtByteRangesLoop(b, brs, fs, acc) ==
    IF brs = <<>> THEN [out |-> "ok", refs |-> acc]
    ELSE LET br == Head(brs)
             r == decodeRefsAt(b, br[1], Len(br) - 1, fs, acc)
         IN IF r.out # "ok" THEN r ELSE refsAtByteRangesLoop(b, Tail(brs), fs, r.refs)

\* fsUnitStore.refsAtByteRanges: br[1:] of an empty (nil) byteRanges is a
\* slice out of range, a panic in the loop that sums the read lengths.
refsAtByteRanges(f, brs, fs) ==
    IF ~f.exists THEN [out |-> "err", refs |-> <<>>]
    ELSE IF \E i \in 1..Len(brs) : Len(brs[i]) = 0 THEN [out |-> "panic", refs |-> <<>>]
    ELSE refsAtByteRangesLoop(f.bytes, brs, fs, <<>>)

\* ------------------------------------------------------------------------
\* The tree-level def-query index (defQueryTreeIndex)

\* const maxUnits = math.MaxUint8
maxUnits == 255

\* The elements of a sequence.
Range(s) == {s[i] : i \in 1..Len(s)}

\* Whether p is a prefix of s.
IsPrefix(p, s) == Len(p) <= Len(s) /\ \A i \in 1..Len(p) : p[i] = s[i]

\* strings.ToLower on ASCII.
ToLower(q) == [i \in 1..Len(q) |-> IF q[i] \in 65..90 THEN q[i] + 32 ELSE q[i]]

\* unitID2s.Less: by Name, then by Type.
unitID2sLess(a, b) ==
    StrLess(a.Name, b.Name) \/ (a.Name = b.Name /\ StrLess(a.Type, b.Type))

\* The set S as the sequence sort.Sort leaves under the strict total order
\* Less: each element at the place of the number of elements Less than it.
SortBy(S, Less(_, _)) ==
    LET rank == [u \in S |-> Cardinality({v \in S : Less(v, u)})]
        at == [i \in 0..(Cardinality(S) - 1) |-> CHOOSE u \in S : rank[u] = i]
    IN [i \in 1..Cardinality(S) |-> at[i - 1]]

\* deltaEncode: each value after the first is its difference to the one
\* before it.
deltaEncode(v) == [i \in 1..Len(v) |-> IF i = 1 THEN v[1] ELSE v[i] - v[i - 1]]

\* deltaDecode: the running sums.
deltaDecode(d) == [i \in 1..Len(d) |-> SumSeq(SubSeq(d, 1, i))]

\* The concatenation of a sequence of sequences.
RECURSIVE Flatten(_)
Flatten(ss) == IF ss = <<>> THEN <<>> ELSE Head(ss) \o Flatten(Tail(ss))

\* x.mt before Build or Read: nil.
NilTable == [built |-> FALSE, hasT |-> FALSE, terms |-> <<>>, Units |-> <<>>, Values |-> <<>>]

\* &mafsaUnitTable{}: no MinTree, no units, no values.
EmptyTable == [built |-> TRUE, hasT |-> FALSE, terms |-> <<>>, Units |-> <<>>, Values |-> <<>>]

\* A traverse that never advances i: every term gets the first Values entry.
TermIndex_first(qx, term) == 1

\* The place of term in the (sorted) terms of a per-unit index: the i of
\* traverse when it reaches the term's final node.
TermIndex(qx, term) == CHOOSE i \in 1..Len(qx.terms) : qx.terms[i] = term

\* unitNums[u] in Build: the place (from 0) of u among the kept units; a
\* dropped unit is not a key of the map, and the lookup gives 0.
UnitNum(units, u) ==
    IF \E i \in 1..Len(units) : units[i] = u
    THEN (CHOOSE i \in 1..Len(units) : units[i] = u) - 1
    ELSE 0

\* defQueryTreeIndex.Build on the per-unit indices xsIn, whose keys Go ranges
\* over in the order iter: the x.mt it leaves.
\*   units     the keys sorted by unitID2s.Less (SortSeq is TLC's sort of a
\*             sequence by an order), cut to maxUnits
\*   withT     the units whose per-unit index has a MinTree (qx.mt.t != nil),
\*             all units of xs, dropped or not
\*   termToUOffs[term]  one unitOffsets per unit that has the term, in the
\*             order the units are ranged over
Build(xsIn, iter) ==
    LET sorted == SortSeq(iter, unitID2sLess)
        units == IF Len(sorted) > maxUnits THEN SubSeq(sorted, 1, maxUnits) ELSE sorted
        withT == SelectSeq(iter, LAMBDA u : xsIn[u].hasT)
        termSet == UNION {Range(xsIn[withT[j]].terms) : j \in 1..Len(withT)}
        termToUOffs(term) ==
            LET us == SelectSeq(withT, LAMBDA u : term \in Range(xsIn[u].terms))
            IN [j \in 1..Len(us) |->
                   [Unit |-> UnitNum(units, us[j]),
                    byteOffsets |-> deltaEncode(xsIn[us[j]].Values[TermIndex(xsIn[us[j]], term)])]]
        terms == SortBy(termSet, StrLess)
    IN IF termSet = {} THEN EmptyTable
       ELSE [built |-> TRUE, hasT |-> TRUE, terms |-> terms, Units |-> units,
             Values |-> [i \in 1..Len(terms) |-> termToUOffs(terms[i])]]

\* mafsa's MinTree.IndexedTraverse over the words of the MAFSA: the node
\* reached by word if there is one, whether it is final, the number of words
\* strictly under it, and the number of words up to and including it.
IndexedTraverse(terms, word) ==
    [exists |-> word = <<>> \/ \E i \in 1..Len(terms) : IsPrefix(word, terms[i]),
     Final  |-> word \in Range(terms),
     Number |-> Cardinality({i \in 1..Len(terms) : IsPrefix(word, terms[i]) /\ terms[i] # word}),
     index  |-> Cardinality({i \in 1..Len(terms) : terms[i] = word \/ StrLess(terms[i], word)})]

\* The postings of the unitOffsets es, per unit: the offsets of each unit's
\* entries decoded and appended in the order of es.
Postings(m, es) ==
    [u \in {m.Units[es[k].Unit + 1] : k \in 1..Len(es)} |->
        Flatten(LET mine == SelectSeq(es, LAMBDA e : m.Units[e.Unit + 1] = u)
                IN [k \in 1..Len(mine) |-> deltaDecode(mine[k].byteOffsets)])]

\* A getByQuery that assigns each entry's offsets to uofMap[u] instead of
\* appending them.
getByQuery_overwrite(m, q) ==
    IF ~m.built \/ ~m.hasT THEN [out |-> "panic", map |-> EmptyMap]
    ELSE LET node == IndexedTraverse(m.terms, ToLower(q)) IN
         IF ~node.exists THEN [out |-> "notfound", map |-> EmptyMap]
         ELSE LET i == IF node.Final THEN node.index - 1 ELSE node.index
                  nn == IF node.Final THEN node.Number + 1 ELSE node.Number
                  es == Flatten(SubSeq(m.Values, i + 1, i + nn))
              IN [out |-> "found",
                  map |-> [u \in {m.Units[es[k].Unit + 1] : k \in 1..Len(es)} |->
                             LET mine == SelectSeq(es, LAMBDA e : m.Units[e.Unit + 1] = u)
                             IN deltaDecode(mine[Len(mine)].byteOffsets)]]

\* defQueryTreeIndex.getByQuery without its counter: a panic when x.mt is nil
\* ("mafsaTable not built/read") or has no MinTree (x.mt.t is nil), not found
\* when no node is reached, else the union of Values[i : i+nn].
getByQuery(m, q) ==
    IF ~m.built \/ ~m.hasT THEN [out |-> "panic", map |-> EmptyMap]
    ELSE LET node == IndexedTraverse(m.terms, ToLower(q)) IN
         IF ~node.exists THEN [out |-> "notfound", map |-> EmptyMap]
         ELSE LET i == IF node.Final THEN node.index - 1 ELSE node.index
                  nn == IF node.Final THEN node.Number + 1 ELSE node.Number
              IN [out |-> "found",
                  map |-> Postings(m, Flatten(SubSeq(m.Values, i + 1, i + nn)))]
\* ------------------------------------------------------------------------
\* The unit store's specification: one import, then reads

NoFile == [exists |-> FALSE, bytes |-> <<>>]

NoRes == [op |-> "none", out |-> "ok", fs |-> <<>>, file |-> <<>>,
          defs |-> <<>>, refs |-> <<>>, ofs |-> <<>>, fbr |-> EmptyMap]

\* The graph.Output values imported: cleaned defs and refs in any order.
Outputs ==
    {[Defs |-> d, Refs |-> r] :
        <<d, r>> \in {x \in SeqsUpTo(DefValues, MaxRecs) \X SeqsUpTo(RefValues, MaxRecs) :
                        Len(x[1]) + Len(x[2]) <= MaxRecs}}

\* The filter lists of the reads: none, or one ByDefPath / ByFiles filter.
DefFilterLists == {<<>>, <<<<112, 49>>>>}

RefFilterLists == {<<>>, <<<<97>>>>}

UnitInit ==
    /\ defDat = NoFile
    /\ refDat = NoFile
    /\ imported = FALSE
    /\ inDefs = <<>>
    /\ inRefs = <<>>
    /\ wRefs = <<>>
    /\ wDefOfs = <<>>
    /\ wFbr = EmptyMap
    /\ wRefOfs = <<>>
    /\ res = NoRes

\* fsUnitStore.Import on a unit store that holds no data yet (data files are
\* written once per unit). fail names the s.fs.Create that fails, if any.
Import(data, fail) ==
    /\ ~imported
    /\ imported' = TRUE
    /\ inDefs' = data.Defs
    /\ inRefs' = data.Refs
    /\ IF fail = "createDefs"
       THEN /\ res' = [NoRes EXCEPT !.op = "Import", !.out = "err"]
            /\ UNCHANGED <<defDat, refDat, wRefs, wDefOfs, wFbr, wRefOfs>>
       ELSE LET wd == writeDefs(data.Defs) IN
            /\ defDat' = [exists |-> TRUE, bytes |-> wd.bytes]
            /\ wDefOfs' = wd.ofs
            /\ IF fail = "createRefs"
               THEN /\ res' = [NoRes EXCEPT !.op = "Import", !.out = "err"]
                    /\ UNCHANGED <<refDat, wRefs, wFbr, wRefOfs>>
               ELSE \E sorted \in SortedPerms(data.Refs) :
                        LET wr == writeRefs(sorted) IN
                        /\ wRefs' = sorted
                        /\ refDat' = [exists |-> TRUE, bytes |-> wr.bytes]
                        /\ wFbr' = wr.fbr
                        /\ wRefOfs' = wr.ofs
                        /\ res' = [NoRes EXCEPT !.op = "Import"]
    /\ UNCHANGED <<ivars, tvars, hvars, rvars, fvars, qvars>>

UnitUnchanged ==
    UNCHANGED <<defDat, refDat, imported, inDefs, inRefs, wRefs, wDefOfs, wFbr, wRefOfs, ivars, tvars, hvars, rvars, fvars, qvars>>

\* s.Defs(fs...)
DefsOp(fs) ==
    /\ LET r == Defs(defDat, fs) IN
       res' = [NoRes EXCEPT !.op = "Defs", !.out = r.out, !.fs = fs, !.defs = r.defs]
    /\ UnitUnchanged

\* s.readDefs()
ReadDefsOp ==
    /\ LET r == readDefs(defDat) IN
       res' = [NoRes EXCEPT !.op = "readDefs", !.out = r.out, !.defs = r.defs, !.ofs = r.ofs]
    /\ UnitUnchanged

\* s.Refs(fs...)
RefsOp(fs) ==
    /\ LET r == Refs(refDat, fs) IN
       res' = [NoRes EXCEPT !.op = "Refs", !.out = r.out, !.fs = fs, !.refs = r.refs]
    /\ UnitUnchanged

\* s.readRefs()
ReadRefsOp ==
    /\ LET r == readRefs(refDat) IN
       res' = [NoRes EXCEPT !.op = "readRefs", !.out = r.out, !.refs = r.refs,
                            !.ofs = r.ofs, !.fbr = r.fbrs]
    /\ UnitUnchanged

\* s.refsAtByteRanges([]byteRanges{fbr[file]}, nil) with the fileByteRanges
\* writeRefs returned.
RefsAtByteRangesOp(file) ==
    /\ LET r == refsAtByteRanges(refDat, <<MapGet(wFbr, file)>>, <<>>) IN
       res' = [NoRes EXCEPT !.op = "refsAtByteRanges", !.out = r.out, !.file = file,
                            !.refs = r.refs]
    /\ UnitUnchanged

UnitNext ==
    \/ \E data \in Outputs : \E fail \in {"none", "createDefs", "createRefs"} :
           Import(data, fail)
    \/ \E fs \in DefFilterLists : DefsOp(fs)
    \/ ReadDefsOp
    \/ \E fs \in RefFilterLists : RefsOp(fs)
    \/ \E file \in FileNames : RefsAtByteRangesOp(file)
    \/ ReadRefsOp



\* ------------------------------------------------------------------------
\* The tree-level index's specification: one Build, then queries

NoQRes == [q |-> <<>>, out |-> "none", map |-> EmptyMap]

\* The k-th source unit in (Name, Type) order: names of one byte, types "t"
\* and "u".
UnitAt(k) == [Name |-> <<(k + 1) \div 2>>, Type |-> IF k % 2 = 1 THEN <<116>> ELSE <<117>>]

\* Per-unit def-query indices: none (no MinTree), and some over the terms
\* "a", "ab" and "b" with the byte offsets of the defs in the unit's def.dat.
KNone == [hasT |-> FALSE, terms |-> <<>>, Values |-> <<>>]

KA == [hasT |-> TRUE, terms |-> <<<<97>>>>, Values |-> <<<<0>>>>]

KB == [hasT |-> TRUE, terms |-> <<<<98>>>>, Values |-> <<<<3, 7>>>>]

KFull == [hasT |-> TRUE, terms |-> <<<<97>>, <<97, 98>>, <<98>>>>,
          Values |-> <<<<0, 5>>, <<9>>, <<14>>>>]

KHigh == [hasT |-> TRUE, terms |-> <<<<97>>>>, Values |-> <<<<70, 77>>>>]

\* Which index the first unit, the units between and the last unit get.
Patterns ==
    { <<KFull, KNone, KHigh>>, <<KA, KNone, KB>>, <<KNone, KNone, KNone>>,
      <<KB, KNone, KFull>>, <<KA, KA, KHigh>>, <<KHigh, KNone, KA>> }

\* The numbers of units of a tree: few, and around maxUnits.
UnitCounts == {0, 1, 2, maxUnits, maxUnits + 1, maxUnits + 2}

\* The units of a tree of n units, in (Name, Type) order.
UnitsUpTo(n) == [k \in 1..n |-> UnitAt(k)]

\* The per-unit indices of a tree of n units.
MakeXs(n, pat) ==
    [u \in Range(UnitsUpTo(n)) |->
        IF u = UnitAt(1) THEN pat[1] ELSE IF u = UnitAt(n) THEN pat[3] ELSE pat[2]]

BuildInputs == {<<n, pat>> : n \in UnitCounts, pat \in Patterns}

\* The query strings: over 'A', 'a' and 'b'.
Queries == SeqsUpTo({65, 97, 98}, 2)

IndexInit ==
    /\ xs = EmptyMap
    /\ mt = NilTable
    /\ ready = FALSE
    /\ counter = 0
    /\ qres = NoQRes
    /\ last = [op |-> "", out |-> ""]

\* A per-unit index whose Values is shorter than its terms: traverse indexes
\* qx.mt.Values out of range.
KBroken == [hasT |-> TRUE, terms |-> <<<<97>>, <<98>>>>, Values |-> <<<<0>>>>]

\* Whether Build panics on the per-unit indices xsIn.
BuildPanics(xsIn) ==
    \E u \in DOMAIN xsIn : xsIn[u].hasT /\ Len(xsIn[u].Values) < Len(xsIn[u].terms)

\* The steps of Build that can return an error besides a panic:
\* bt.MarshalBinary and the Decode of the bytes.
BuildFails == {"none", "marshal", "decode"}

\* x.Build(xs) for the tree of input[1] units; Go ranges over the map xs in
\* an order of its own: forward is one of two such orders. A panic is
\* recovered and returned as an error, with x as it was; an error of
\* MarshalBinary or Decode returns with x.mt replaced, its MinTree missing;
\* x.ready is set on the two successful returns only.
BuildOp(input, forward, fail) ==
    /\ LET n == input[1]
           asc == UnitsUpTo(n)
           iter == IF forward THEN asc ELSE [i \in 1..n |-> asc[n + 1 - i]]
           xsIn == MakeXs(n, input[2])
       IN IF BuildPanics(xsIn)
          THEN /\ last' = [op |-> "Build", out |-> "err"]
               /\ UNCHANGED <<xs, mt, ready>>
          ELSE LET b == Build(xsIn, iter) IN
               /\ xs' = xsIn
               /\ IF ~b.hasT \/ fail = "none"
                  THEN /\ mt' = b
                       /\ ready' = TRUE
                       /\ last' = [op |-> "Build", out |-> "ok"]
                  ELSE /\ mt' = [b EXCEPT !.hasT = FALSE, !.terms = <<>>,
                                          !.Units = IF fail = "decode" THEN @ ELSE <<>>]
                       /\ last' = [op |-> "Build", out |-> "err"]
                       /\ UNCHANGED ready
    /\ UNCHANGED <<counter, qres, uvars, tvars, hvars, rvars, fvars, qvars>>

\* The steps of Read that can fail: ioutil.ReadAll, binary.Unmarshal and the
\* Decode of the MAFSA bytes.
ReadFails == {"none", "readAll", "unmarshal", "decode"}

\* x.Read(r), r holding the table that Write persisted of a built index (B,
\* Units and Values; the MinTree is decoded from B unless B is empty). An
\* error of ReadAll returns with x as it was; otherwise x.mt is replaced and
\* x.ready says whether Unmarshal and Decode succeeded.
ReadOp(table, fail) ==
    /\ IF fail = "readAll"
       THEN /\ last' = [op |-> "Read", out |-> "err"]
            /\ UNCHANGED <<mt, ready>>
       ELSE /\ mt' = CASE fail = "unmarshal" -> EmptyTable
                       [] fail = "decode" /\ table.hasT ->
                              [table EXCEPT !.hasT = FALSE, !.terms = <<>>]
                       [] OTHER -> table
            /\ ready' = (fail = "none" \/ (fail = "decode" /\ ~table.hasT))
            /\ last' = [op |-> "Read",
                        out |-> IF fail = "none" \/ (fail = "decode" /\ ~table.hasT)
                                THEN "ok" ELSE "err"]
    /\ UNCHANGED <<xs, counter, qres, uvars, tvars, hvars, rvars, fvars, qvars>>

\* x.getByQuery(q): counts the call, then answers.
QueryOp(q) ==
    /\ counter < MaxCalls
    /\ counter' = counter + 1
    /\ LET r == getByQuery(mt, q) IN qres' = [q |-> q, out |-> r.out, map |-> r.map]
    /\ UNCHANGED <<xs, mt, ready, last, uvars, tvars, hvars, rvars, fvars, qvars>>

\* One Build that meets no error, then queries.
IndexNext ==
    \/ (~mt.built /\ \E input \in BuildInputs : \E forward \in BOOLEAN :
                          BuildOp(input, forward, "none"))
    \/ \E q \in Queries : QueryOp(q)

\* The trees of the index's life: of no, one or two units, some with a
\* per-unit index that makes Build panic.
SmallInputs ==
    {<<n, pat>> : n \in {0, 1, 2},
                  pat \in {<<KFull, KNone, KHigh>>, <<KNone, KNone, KNone>>,
                           <<KBroken, KNone, KA>>}}

\* The tables a reader finds persisted: those of the trees built without
\* error.
PersistedTables ==
    {Build(MakeXs(input[1], input[2]), UnitsUpTo(input[1])) :
        input \in {i \in SmallInputs : i[1] # 1 /\ ~BuildPanics(MakeXs(i[1], i[2]))}}

\* Builds and Reads in any order, and queries.
ReadyNext ==
    \/ \E input \in SmallInputs : \E fail \in BuildFails : BuildOp(input, TRUE, fail)
    \/ \E table \in PersistedTables : \E fail \in ReadFails : ReadOp(table, fail)
    \/ \E q \in Queries : QueryOp(q)

\* ------------------------------------------------------------------------
\* Paths (package path of the Go library, on strings of character codes;
\* 46 is '.', 47 is '/')

\* strings.HasSuffix(s, suf)
HasSuffix(s, suf) ==
    Len(s) >= Len(suf) /\ SubSeq(s, Len(s) - Len(suf) + 1, Len(s)) = suf

\* strings.TrimSuffix(s, suf)
TrimSuffix(s, suf) ==
    IF HasSuffix(s, suf) THEN SubSeq(s, 1, Len(s) - Len(suf)) ELSE s

\* The positions of '/' in p.
Slashes(p) == {i \in 1..Len(p) : p[i] = 47}

\* strings.Split(p, "/")
RECURSIVE SplitSlash(_)
SplitSlash(p) ==
    IF Slashes(p) = {} THEN <<p>>
    ELSE LET i == CHOOSE k \in Slashes(p) : \A j \in Slashes(p) : k <= j
         IN <<SubSeq(p, 1, i - 1)>> \o SplitSlash(SubSeq(p, i + 1, Len(p)))

\* strings.Join(cs, "/")
RECURSIVE JoinSlash(_)
JoinSlash(cs) ==
    IF cs = <<>> THEN <<>>
    ELSE IF Len(cs) = 1 THEN cs[1]
    ELSE cs[1] \o <<47>> \o JoinSlash(Tail(cs))

\* The elements path.Clean keeps: empty and "." elements go, ".." takes the
\* element before it away (or stays, in front of a path that is not rooted).
RECURSIVE CleanComps(_, _, _)
CleanComps(cs, out, rooted) ==
    IF cs = <<>> THEN out
    ELSE LET c == Head(cs) IN
         IF c = <<>> \/ c = <<46>> THEN CleanComps(Tail(cs), out, rooted)
         ELSE IF c = <<46, 46>>
         THEN IF out # <<>> /\ out[Len(out)] # <<46, 46>>
              THEN CleanComps(Tail(cs), SubSeq(out, 1, Len(out) - 1), rooted)
              ELSE IF rooted THEN CleanComps(Tail(cs), out, rooted)
              ELSE CleanComps(Tail(cs), Append(out, c), rooted)
         ELSE CleanComps(Tail(cs), Append(out, c), rooted)

\* path.Clean(p)
pathClean(p) ==
    IF p = <<>> THEN <<46>>
    ELSE LET rooted == p[1] = 47
             body == JoinSlash(CleanComps(SplitSlash(p), <<>>, rooted))
         IN IF rooted THEN <<47>> \o body
            ELSE IF body = <<>> THEN <<46>> ELSE body

\* path.Join(elems...)
pathJoin(elems) ==
    LET ne == SelectSeq(elems, LAMBDA e : e # <<>>) IN
    IF ne = <<>> THEN <<>> ELSE pathClean(JoinSlash(ne))

\* path.Dir(p)
pathDir(p) ==
    LET i == IF Slashes(p) = {} THEN 0
             ELSE CHOOSE k \in Slashes(p) : \A j \in Slashes(p) : j <= k
    IN pathClean(SubSeq(p, 1, i))

\* p without the slashes at its end.
RECURSIVE TrimSlashes(_)
TrimSlashes(p) ==
    IF p # <<>> /\ p[Len(p)] = 47 THEN TrimSlashes(SubSeq(p, 1, Len(p) - 1)) ELSE p

\* path.Base(p)
pathBase(p) ==
    IF p = <<>> THEN <<46>>
    ELSE LET s == TrimSlashes(p)
             i == IF Slashes(s) = {} THEN 0
                  ELSE CHOOSE k \in Slashes(s) : \A j \in Slashes(s) : j <= k
             b == SubSeq(s, i + 1, Len(s))
         IN IF b = <<>> THEN <<47>> ELSE b

\* ------------------------------------------------------------------------
\* The tree store (fsTreeStore) on its VFS

\* ".unit.json"
unitFileSuffix == <<46, 117, 110, 105, 116, 46, 106, 115, 111, 110>>

\* "def.dat"
unitDefsFilename == <<100, 101, 102, 46, 100, 97, 116>>

\* "ref.dat"
unitRefsFilename == <<114, 101, 102, 46, 100, 97, 116>>

\* s.unitFilename(unitType, unit)
unitFilename(unitType, unit) == pathJoin(<<unit, unitType \o unitFileSuffix>>)

\* unit.ID2 of a source unit.
ID2(u) == [Type |-> u.Type, Name |-> u.Name]

\* A VFS that holds nothing, not even the store's root directory.
EmptyFS == [root |-> FALSE, files |-> {}]

\* rwvfs.MkdirAll(fs, dir): the directory and its parents exist afterwards,
\* the store's root among them.
MkdirAll_noop(fs, dir) == fs

MkdirAll(fs, dir) == [fs EXCEPT !.root = TRUE]

\* fs.Create(name) and the bytes written to it up to Close: the file holds
\* content, replacing what a file of that name held.
WriteFile(fs, name, content) ==
    [fs EXCEPT !.files = {f \in @ : f.path # name} \cup {[path |-> name, content |-> content]}]

\* Whether the directory walk visits p before q: the entries of a directory
\* in the order of their names, a directory's content before its next sibling.
WalkLess(p, q) ==
    LET a == SplitSlash(p)
        b == SplitSlash(q)
    IN \E k \in 1..(Len(a) + 1) :
           /\ k <= Len(b)
           /\ \A j \in 1..(k - 1) : a[j] = b[j]
           /\ (k = Len(a) + 1 \/ StrLess(a[k], b[k]))

\* The paths ps in the order the walk visits them.
RECURSIVE WalkOrder(_)
WalkOrder(ps) ==
    IF ps = {} THEN <<>>
    ELSE LET m == CHOOSE p \in ps : \A q \in ps : q = p \/ WalkLess(p, q)
         IN <<m>> \o WalkOrder(ps \ {m})

\* s.unitFilenames(): the walk fails on a root that does not exist; it
\* yields the regular files whose name ends in the manifest suffix.
unitFilenames(fs) ==
    IF ~fs.root THEN [out |-> "err", files |-> <<>>]
    ELSE [out |-> "ok",
          files |-> WalkOrder({f.path : f \in {g \in fs.files :
                                  HasSuffix(pathBase(g.path), unitFileSuffix)}})]

\* s.openUnitFile(filename): the manifest decoded from the file.
openUnitFile(fs, filename) ==
    LET fset == {f \in fs.files : f.path = filename} IN
    IF fset = {} THEN [out |-> "err", unit |-> <<>>]
    ELSE LET f == CHOOSE g \in fset : TRUE IN
         IF f.content.kind = "manifest" THEN [out |-> "ok", unit |-> f.content.unit]
         ELSE [out |-> "err", unit |-> <<>>]

\* The loop of Units over the manifest files, with no filters.
RECURSIVE UnitsLoop(_, _, _)
UnitsLoop(fs, files, units) ==
    IF files = <<>> THEN [out |-> "ok", units |-> units]
    ELSE LET r == openUnitFile(fs, Head(files)) IN
         IF r.out = "err" THEN [out |-> "err", units |-> <<>>]
         ELSE UnitsLoop(fs, Tail(files), Append(units, r.unit))

\* s.Units(): no filters, every manifest is selected.
Units(fs) ==
    LET fns == unitFilenames(fs) IN
    IF fns.out = "err" THEN [out |-> "err", units |-> <<>>]
    ELSE UnitsLoop(fs, fns.files, <<>>)

\* s.openAllUnitStores(): the unit.ID2 keys of the map it returns, one for
\* each manifest path.
openAllUnitStores(fs) ==
    LET fns == unitFilenames(fs) IN
    IF fns.out = "err" THEN [out |-> "err", paths |-> <<>>, ids |-> <<>>]
    ELSE [out |-> "ok", paths |-> fns.files,
          ids |-> [i \in 1..Len(fns.files) |->
                      LET dir == TrimSuffix(fns.files[i], unitFileSuffix)
                      IN [Type |-> pathBase(dir), Name |-> pathDir(dir)]]]

\* ------------------------------------------------------------------------
\* Specification of the tree store

MaxImports == 2

\* Unit types "t", "u"; unit names "a", "a/b", "" and "./a".
TreeTypes == {<<116>>, <<117>>}

TreeNames == {<<97>>, <<97, 47, 98>>, <<>>, <<46, 47, 97>>}

\* The source units imported: beyond (Type, Name) a manifest is opaque, Info
\* stands for the rest of it.
SourceUnits == [Type : TreeTypes, Name : TreeNames, Info : {<<>>, <<105>>}]

NoTRes == [op |-> "", out |-> "", units |-> <<>>, paths |-> <<>>, ids |-> <<>>]

TreeInit ==
    /\ tfs = EmptyFS
    /\ tUnits = {}
    /\ tInit = FALSE
    /\ tFailed = FALSE
    /\ tCount = 0
    /\ tres = NoTRes

\* s.Import(nil, data): fail says whether MkdirAll fails.
TreeImportNil(fail) ==
    /\ IF fail
       THEN /\ tres' = [NoTRes EXCEPT !.op = "Import", !.out = "err"]
            /\ UNCHANGED <<tfs, tInit>>
       ELSE /\ tfs' = MkdirAll(tfs, <<46>>)
            /\ tInit' = TRUE
            /\ tres' = [NoTRes EXCEPT !.op = "Import", !.out = "ok"]
    /\ UNCHANGED <<tUnits, tFailed, tCount, uvars, ivars, hvars, rvars, fvars, qvars>>

\* s.Import(u, data) for a unit u: fail names the step that fails, if any
\* (the first MkdirAll, Create, Encode, or the unit store's Import).
TreeImport(u, fail) ==
    /\ tCount < MaxImports
    /\ tCount' = tCount + 1
    /\ LET fname == unitFilename(u.Type, u.Name)
           fs1 == MkdirAll(tfs, pathDir(fname))
           fs2 == WriteFile(fs1, fname, [kind |-> "partial", unit |-> u])
           fs3 == WriteFile(fs1, fname, [kind |-> "manifest", unit |-> u])
           dir == TrimSuffix(fname, unitFileSuffix)
           fs4 == MkdirAll(fs3, dir)
           fs5 == WriteFile(WriteFile(fs4, pathJoin(<<dir, unitDefsFilename>>),
                                      [kind |-> "data", unit |-> u]),
                            pathJoin(<<dir, unitRefsFilename>>),
                            [kind |-> "data", unit |-> u])
       IN tfs' = CASE fail = "mkdir" -> tfs
                   [] fail = "create" -> fs1
                   [] fail = "encode" -> fs2
                   [] fail = "import" -> fs4
                   [] OTHER -> fs5
    /\ IF fail = "none"
       THEN /\ tUnits' = {x \in tUnits : ID2(x) # ID2(u)} \cup {u}
            /\ tres' = [NoTRes EXCEPT !.op = "Import", !.out = "ok"]
            /\ UNCHANGED tFailed
       ELSE /\ tFailed' = TRUE
            /\ tres' = [NoTRes EXCEPT !.op = "Import", !.out = "err"]
            /\ UNCHANGED tUnits
    /\ UNCHANGED <<tInit, uvars, ivars, hvars, rvars, fvars, qvars>>

\* s.Units(nil)
TreeUnits ==
    /\ LET r == Units(tfs) IN
       tres' = [NoTRes EXCEPT !.op = "Units", !.out = r.out, !.units = r.units]
    /\ UNCHANGED <<tfs, tUnits, tInit, tFailed, tCount, uvars, ivars, hvars, rvars, fvars, qvars>>

\* s.openAllUnitStores()
TreeOpenAll ==
    /\ LET r == openAllUnitStores(tfs) IN
       tres' = [NoTRes EXCEPT !.op = "openAllUnitStores", !.out = r.out,
                              !.paths = r.paths, !.ids = r.ids]
    /\ UNCHANGED <<tfs, tUnits, tInit, tFailed, tCount, uvars, ivars, hvars, rvars, fvars, qvars>>

TreeNext ==
    \/ \E fail \in BOOLEAN : TreeImportNil(fail)
    \/ \E u \in SourceUnits :
           \E fail \in {"none", "mkdir", "create", "encode", "import"} : TreeImport(u, fail)
    \/ TreeUnits
    \/ TreeOpenAll

\* ------------------------------------------------------------------------
\* File handles: the operations as sequences of steps

\* One step of an operation: open (s.fs.Open, s.fs.Create or
\* openFetcherOrOpen, returning at once when it fails), defer (the deferred
\* f.Close() of the handle just opened), work (a call that may fail and make
\* the operation return), while (enter the loop body or leave for step to),
\* goto (back to the loop head), call (another operation, whose error makes
\* this one return) and return.
Step(k, what, to) == [k |-> k, what |-> what, to |-> to]

\* A read of a whole data file: Defs, readDefs, Refs, readRefs.
ScanProgram ==
    << Step("open", "Open", 0), Step("defer", "", 0),
       Step("while", "", 6), Step("work", "decode", 0), Step("goto", "", 3),
       Step("return", "", 0) >>

\* A read at offsets: defsAtOffsets, refsAtOffsets.
AtOffsetsProgram ==
    << Step("open", "openFetcherOrOpen", 0), Step("defer", "", 0),
       Step("while", "", 8), Step("work", "fetch", 0), Step("work", "seek", 0),
       Step("work", "decode", 0), Step("goto", "", 3),
       Step("return", "", 0) >>

\* refsAtByteRanges: br[1:] of the first loop panics on an empty byteRanges.
AtByteRangesProgram ==
    << Step("open", "openFetcherOrOpen", 0), Step("defer", "", 0),
       Step("work", "br[1:]", 0),
       Step("while", "", 11), Step("work", "fetch", 0), Step("work", "seek", 0),
       Step("while", "", 10), Step("work", "decode", 0), Step("goto", "", 7),
       Step("goto", "", 4),
       Step("return", "", 0) >>

\* writeDefs, writeRefs.
WriteProgram ==
    << Step("open", "Create", 0), Step("defer", "", 0),
       Step("while", "", 6), Step("work", "encode", 0), Step("goto", "", 3),
       Step("work", "flush", 0),
       Step("return", "", 0) >>

\* writeRefs with the Close deferred only once the file is written.
WriteProgram_lateDefer ==
    << Step("open", "Create", 0),
       Step("while", "", 5), Step("work", "encode", 0), Step("goto", "", 2),
       Step("work", "flush", 0), Step("defer", "", 0),
       Step("return", "", 0) >>

Program_lateDefer(op) ==
    CASE op \in {"Defs", "readDefs", "Refs", "readRefs"} -> ScanProgram
      [] op \in {"defsAtOffsets", "refsAtOffsets"} -> AtOffsetsProgram
      [] op = "refsAtByteRanges" -> AtByteRangesProgram
      [] op = "writeDefs" -> WriteProgram
      [] op = "writeRefs" -> WriteProgram_lateDefer
      [] op = "openUnitFile" ->
            << Step("open", "Open", 0), Step("defer", "", 0),
               Step("work", "decode", 0), Step("return", "", 0) >>
      [] op = "Import" ->
            << Step("call", "writeDefs", 0), Step("call", "writeRefs", 0),
               Step("return", "", 0) >>
      [] op = "TreeImport" ->
            << Step("work", "MkdirAll", 0),
               Step("open", "Create", 0), Step("defer", "", 0),
               Step("work", "encode", 0), Step("work", "MkdirAll", 0),
               Step("call", "Import", 0), Step("return", "", 0) >>
      [] OTHER ->
            << Step("work", "unitFilenames", 0),
               Step("while", "", 5), Step("call", "openUnitFile", 0), Step("goto", "", 2),
               Step("return", "", 0) >>

\* The steps of each operation, in the order of its code.
Program(op) ==
    CASE op \in {"Defs", "readDefs", "Refs", "readRefs"} -> ScanProgram
      [] op \in {"defsAtOffsets", "refsAtOffsets"} -> AtOffsetsProgram
      [] op = "refsAtByteRanges" -> AtByteRangesProgram
      [] op \in {"writeDefs", "writeRefs"} -> WriteProgram
      [] op = "openUnitFile" ->
            << Step("open", "Open", 0), Step("defer", "", 0),
               Step("work", "decode", 0), Step("return", "", 0) >>
      [] op = "Import" ->
            << Step("call", "writeDefs", 0), Step("call", "writeRefs", 0),
               Step("return", "", 0) >>
      [] op = "TreeImport" ->
            << Step("work", "MkdirAll", 0),
               Step("open", "Create", 0), Step("defer", "", 0),
               Step("work", "encode", 0), Step("work", "MkdirAll", 0),
               Step("call", "Import", 0), Step("return", "", 0) >>
      [] OTHER ->
            << Step("work", "unitFilenames", 0),
               Step("while", "", 5), Step("call", "openUnitFile", 0), Step("goto", "", 2),
               Step("return", "", 0) >>

\* The operations a caller of the stores can start.
Operations ==
    {"Defs", "readDefs", "Refs", "readRefs", "defsAtOffsets", "refsAtOffsets",
     "refsAtByteRanges", "writeDefs", "writeRefs", "openUnitFile", "Import",
     "TreeImport", "Units"}

\* ------------------------------------------------------------------------
\* Specification of the file handles

\* How many times the loops of one call are entered.
MaxIter == 2

\* A call that has just begun.
Frame(op) == [op |-> op, pc |-> 1, defers |-> <<>>, last |-> 0, iter |-> 0, err |-> FALSE]

Top == hStack[Len(hStack)]

TopStep == Program(Top.op)[Top.pc]

\* The stack with its innermost call replaced by f.
WithTop(f) == [hStack EXCEPT ![Len(hStack)] = f]

\* The call f on its way out because a step failed.
Failing(f) == [f EXCEPT !.err = TRUE, !.pc = Len(Program(f.op))]

HandlesInit ==
    /\ hStack = <<>>
    /\ hHandles = <<>>
    /\ hLast = [op |-> "", err |-> FALSE]

HUnchanged == UNCHANGED <<uvars, ivars, tvars, rvars, fvars, qvars>>

\* A caller starts an operation while none is in progress.
HStart(op) ==
    /\ hStack = <<>>
    /\ hStack' = <<Frame(op)>>
    /\ hHandles' = <<>>
    /\ UNCHANGED hLast
    /\ HUnchanged

\* Open or Create: a new handle, or an error and an immediate return.
HOpen(ok) ==
    /\ hStack # <<>> /\ TopStep.k = "open"
    /\ IF ok
       THEN /\ hHandles' = Append(hHandles, [open |-> TRUE, closes |-> 0, depth |-> Len(hStack)])
            /\ hStack' = WithTop([Top EXCEPT !.pc = @ + 1, !.last = Len(hHandles) + 1])
       ELSE /\ hStack' = WithTop(Failing(Top))
            /\ UNCHANGED hHandles
    /\ UNCHANGED hLast
    /\ HUnchanged

\* defer func() { err2 := f.Close(); ... }()
HDefer ==
    /\ hStack # <<>> /\ TopStep.k = "defer"
    /\ hStack' = WithTop([Top EXCEPT !.pc = @ + 1, !.defers = Append(@, Top.last)])
    /\ UNCHANGED <<hHandles, hLast>>
    /\ HUnchanged

\* A decode, encode, fetch, seek, flush or mkdir: it succeeds, or it fails
\* (or panics) and the operation returns.
HWork(ok) ==
    /\ hStack # <<>> /\ TopStep.k = "work"
    /\ hStack' = WithTop(IF ok THEN [Top EXCEPT !.pc = @ + 1] ELSE Failing(Top))
    /\ UNCHANGED <<hHandles, hLast>>
    /\ HUnchanged

\* The head of a loop: one more round, or the loop is over.
HWhile(enter) ==
    /\ hStack # <<>> /\ TopStep.k = "while"
    /\ IF enter
       THEN /\ Top.iter < MaxIter
            /\ hStack' = WithTop([Top EXCEPT !.pc = @ + 1, !.iter = @ + 1])
       ELSE hStack' = WithTop([Top EXCEPT !.pc = TopStep.to])
    /\ UNCHANGED <<hHandles, hLast>>
    /\ HUnchanged

\* The end of a loop body.
HGoto ==
    /\ hStack # <<>> /\ TopStep.k = "goto"
    /\ hStack' = WithTop([Top EXCEPT !.pc = TopStep.to])
    /\ UNCHANGED <<hHandles, hLast>>
    /\ HUnchanged

\* A call of another operation.
HCall ==
    /\ hStack # <<>> /\ TopStep.k = "call"
    /\ hStack' = Append(hStack, Frame(TopStep.what))
    /\ UNCHANGED <<hHandles, hLast>>
    /\ HUnchanged

\* The return of the innermost call: its deferred closes run, each closing
\* its handle (closeFails: a Close returns an error, which becomes the
\* operation's error if it had none); the caller goes on, or returns the
\* error.
HReturn(closeFails) ==
    /\ hStack # <<>> /\ TopStep.k = "return"
    /\ (closeFails => Top.defers # <<>>)
    /\ hHandles' = [h \in 1..Len(hHandles) |->
                       LET n == Cardinality({i \in 1..Len(Top.defers) : Top.defers[i] = h})
                       IN IF n = 0 THEN hHandles[h]
                          ELSE [hHandles[h] EXCEPT !.open = FALSE, !.closes = @ + n]]
    /\ LET err == Top.err \/ closeFails
           rest == SubSeq(hStack, 1, Len(hStack) - 1)
       IN IF rest = <<>>
          THEN /\ hStack' = <<>>
               /\ hLast' = [op |-> Top.op, err |-> err]
          ELSE LET c == rest[Len(rest)] IN
               /\ hStack' = [rest EXCEPT ![Len(rest)] =
                                IF err THEN Failing(c) ELSE [c EXCEPT !.pc = @ + 1]]
               /\ UNCHANGED hLast
    /\ HUnchanged

HandlesNext ==
    \/ \E op \in Operations : HStart(op)
    \/ \E ok \in BOOLEAN : HOpen(ok)
    \/ HDefer
    \/ \E ok \in BOOLEAN : HWork(ok)
    \/ \E enter \in BOOLEAN : HWhile(enter)
    \/ HGoto
    \/ HCall
    \/ \E closeFails \in BOOLEAN : HReturn(closeFails)

\* ------------------------------------------------------------------------
\* The multi-repo store (fsMultiRepoStore)

\* ".srclib-store"
SrclibStoreDir == <<46, 115, 114, 99, 108, 105, 98, 45, 115, 116, 111, 114, 101>>

\* The default RepoToPath: the repo and the store directory below it.
RepoToPath(repo) == <<repo, SrclibStoreDir>>

\* The default PathToRepo, of the path of a store directory.
PathToRepo(p) == pathDir(p)

\* ListRepoPaths(fs, after, max) over the store directories dirs: the
\* directory scan visits them in walk order and lists those whose path does
\* not sort before after, up to max of them (all if max is 0).
ListRepoPaths(dirs, after, max) ==
    LET listed == SelectSeq(WalkOrder(dirs), LAMBDA p : ~StrLess(p, after))
    IN IF max # 0 /\ Len(listed) > max THEN SubSeq(listed, 1, max) ELSE listed

\* repoFilters(f).SelectRepo(repo), for filters that scope to the repos scope.
SelectRepo(scope, repo) == \A i \in 1..Len(scope) : scope[i] = repo

LexPredecessor(comp) ==
    SubSeq(comp, 1, Len(comp) - 1) \o <<comp[Len(comp)] - 1>> \o <<255>>

\* s.Repos(f...) on a store that holds the repos stored; scope is what
\* scopeRepos makes of the filters.
Repos(stored, scope) ==
    IF Len(scope) > 1 THEN [out |-> "ok", repos |-> <<>>]
    ELSE LET comps == IF Len(scope) = 1 THEN RepoToPath(scope[1]) ELSE <<>>
             afterComps == IF comps = <<>> THEN comps
                           ELSE [comps EXCEPT ![Len(comps)] = LexPredecessor(@)]
             after == pathJoin(afterComps)
             max == IF Len(scope) = 1 THEN 1 ELSE 0
             paths == ListRepoPaths({pathJoin(RepoToPath(r)) : r \in stored}, after, max)
             all == [i \in 1..Len(paths) |-> PathToRepo(paths[i])]
         IN [out |-> "ok", repos |-> SelectSeq(all, LAMBDA r : SelectRepo(scope, r))]

\* ------------------------------------------------------------------------
\* Specification of the multi-repo store

\* The repos "a", "a-b", "a.b", "a/b" and "b".
RepoNames == {<<97>>, <<97, 45, 98>>, <<97, 46, 98>>, <<97, 47, 98>>, <<98>>}

\* What scopeRepos returns: nothing, one repo, or more than one.
Scopes == {<<>>} \cup {<<r>> : r \in RepoNames} \cup {<<<<97>>, <<98>>>>, <<<<97>>, <<97, 45, 98>>>>}

NoRRes == [op |-> "", out |-> "", scope |-> <<>>, repos |-> <<>>]

ReposInit ==
    /\ rStored = {}
    /\ rres = NoRRes

\* s.Import(repo, commitID, unit, data): the repo's store directory exists
\* afterwards.
RepoImport(repo) ==
    /\ repo \notin rStored
    /\ rStored' = rStored \cup {repo}
    /\ rres' = [NoRRes EXCEPT !.op = "Import", !.out = "ok"]
    /\ UNCHANGED <<uvars, ivars, tvars, hvars, fvars, qvars>>

\* s.Repos(f...)
ReposOp(scope) ==
    /\ LET r == Repos(rStored, scope) IN
       rres' = [op |-> "Repos", out |-> r.out, scope |-> scope, repos |-> r.repos]
    /\ UNCHANGED <<rStored, uvars, ivars, tvars, hvars, fvars, qvars>>

ReposNext ==
    \/ \E repo \in RepoNames : RepoImport(repo)
    \/ \E scope \in Scopes : ReposOp(scope)

\* ------------------------------------------------------------------------
\* Random-access reads and the calls they make on the opened file

\* const byteEstimate of defsAtOffsets and of refsAtOffsets
byteEstimateDefs == 5000

byteEstimateRefs == 500

\* The calls on the file, as they are logged.
FetchCall(start, end) == [call |-> "Fetch", a |-> start, b |-> end]

SeekCall(start) == [call |-> "Seek", a |-> start, b |-> 0]

DecodeCall == [call |-> "Decode", a |-> 0, b |-> 0]

\* A rangeReader that seeks first and fetches afterwards.
rangeReader_seekFirst(log, fetcher, start, n, failAt) ==
    LET l1 == Append(log, SeekCall(start))
        l2 == IF fetcher THEN Append(l1, FetchCall(start, start + n)) ELSE l1
    IN IF Len(l1) = failAt THEN [out |-> "err", log |-> l1]
       ELSE IF fetcher /\ Len(l2) = failAt THEN [out |-> "err", log |-> l2]
       ELSE [out |-> "ok", log |-> l2]

\* rangeReader(f, start, n): Fetch(start, start+n) if f is a Fetcher, then
\* Seek(start, 0); log is the calls made so far, and the call that makes the
\* log failAt long fails.
rangeReader(log, fetcher, start, n, failAt) ==
    LET l1 == IF fetcher THEN Append(log, FetchCall(start, start + n)) ELSE log
        l2 == Append(l1, SeekCall(start))
    IN IF fetcher /\ Len(l1) = failAt THEN [out |-> "err", log |-> l1]
       ELSE IF Len(l2) = failAt THEN [out |-> "err", log |-> l2]
       ELSE [out |-> "ok", log |-> l2]

\* The loop of defsAtOffsets and of refsAtOffsets over the offsets: a
\* rangeReader and one Decode each.
RECURSIVE atOffsetsLoop(_, _, _, _, _)
atOffsetsLoop(log, ofs, estimate, fetcher, failAt) ==
    IF ofs = <<>> THEN [out |-> "ok", log |-> log]
    ELSE LET r == rangeReader(log, fetcher, Head(ofs), estimate, failAt) IN
         IF r.out = "err" THEN r
         ELSE LET l == Append(r.log, DecodeCall) IN
              IF Len(l) = failAt THEN [out |-> "err", log |-> l]
              ELSE atOffsetsLoop(l, Tail(ofs), estimate, fetcher, failAt)

\* The inner loop of refsAtByteRanges: k Decodes.
RECURSIVE decodeCalls(_, _, _)
decodeCalls(log, k, failAt) ==
    IF k = 0 THEN [out |-> "ok", log |-> log]
    ELSE LET l == Append(log, DecodeCall) IN
         IF Len(l) = failAt THEN [out |-> "err", log |-> l]
         ELSE decodeCalls(l, k - 1, failAt)

\* The loop of refsAtByteRanges over the byte ranges: a rangeReader of the
\* summed lengths and a Decode for each length.
RECURSIVE atByteRangesLoop(_, _, _, _)
atByteRangesLoop(log, brs, fetcher, failAt) ==
    IF brs = <<>> THEN [out |-> "ok", log |-> log]
    ELSE LET br == Head(brs)
             r == rangeReader(log, fetcher, br[1], SumSeq(Tail(br)), failAt)
         IN IF r.out = "err" THEN r
            ELSE LET d == decodeCalls(r.log, Len(br) - 1, failAt) IN
                 IF d.out = "err" THEN d
                 ELSE atByteRangesLoop(d.log, Tail(brs), fetcher, failAt)

\* The calls of refsAtByteRanges: br[1:] of an empty byteRanges panics in the
\* loop that sums the lengths, before any call on the file.
atByteRangesCalls(brs, fetcher, failAt) ==
    IF \E i \in 1..Len(brs) : Len(brs[i]) = 0 THEN [out |-> "panic", log |-> <<>>]
    ELSE atByteRangesLoop(<<>>, brs, fetcher, failAt)

\* ------------------------------------------------------------------------
\* Specification of the random-access reads

\* How many offsets or byte ranges a read is asked for.
MaxItems == 2

\* The offsets asked for, and the byte ranges: [start, length, ...].
OffsetLists == SeqsUpTo({0, 6}, MaxItems)

ByteRangeLists == SeqsUpTo({<<0, 6>>, <<6, 6, 7>>, <<>>}, MaxItems)

\* Which call on the file fails: none (0), or the n-th.
FailPoints == 0..(4 * MaxItems)

NoFRes == [op |-> "", items |-> <<>>, fetcher |-> FALSE, failAt |-> 0, out |-> ""]

FetchInit ==
    /\ fLog = <<>>
    /\ fres = NoFRes

\* s.defsAtOffsets(ofs, nil) on a def.dat that opens
DefsAtOffsetsOp(ofs, fetcher, failAt) ==
    /\ LET r == atOffsetsLoop(<<>>, ofs, byteEstimateDefs, fetcher, failAt) IN
       /\ fLog' = r.log
       /\ fres' = [op |-> "defsAtOffsets", items |-> ofs, fetcher |-> fetcher,
                   failAt |-> failAt, out |-> r.out]
    /\ UNCHANGED <<uvars, ivars, tvars, hvars, rvars, qvars>>

\* s.refsAtOffsets(ofs, nil) on a ref.dat that opens
RefsAtOffsetsOp(ofs, fetcher, failAt) ==
    /\ LET r == atOffsetsLoop(<<>>, ofs, byteEstimateRefs, fetcher, failAt) IN
       /\ fLog' = r.log
       /\ fres' = [op |-> "refsAtOffsets", items |-> ofs, fetcher |-> fetcher,
                   failAt |-> failAt, out |-> r.out]
    /\ UNCHANGED <<uvars, ivars, tvars, hvars, rvars, qvars>>

\* s.refsAtByteRanges(brs, nil) on a ref.dat that opens
RefsAtByteRangesCallsOp(brs, fetcher, failAt) ==
    /\ LET r == atByteRangesCalls(brs, fetcher, failAt) IN
       /\ fLog' = r.log
       /\ fres' = [op |-> "refsAtByteRanges", items |-> brs, fetcher |-> fetcher,
                   failAt |-> failAt, out |-> r.out]
    /\ UNCHANGED <<uvars, ivars, tvars, hvars, rvars, qvars>>

FetchNext ==
    \/ \E ofs \in OffsetLists : \E fetcher \in BOOLEAN : \E failAt \in FailPoints :
           DefsAtOffsetsOp(ofs, fetcher, failAt)
    \/ \E ofs \in OffsetLists : \E fetcher \in BOOLEAN : \E failAt \in FailPoints :
           RefsAtOffsetsOp(ofs, fetcher, failAt)
    \/ \E brs \in ByteRangeLists : \E fetcher \in BOOLEAN : \E failAt \in FailPoints :
           RefsAtByteRangesCallsOp(brs, fetcher, failAt)

\* ------------------------------------------------------------------------
\* Covers and Defs of the tree-level index

\* The filters of a Defs call: ByDefQuery filters with their query, and a
\* filter of another kind.
ByDefQuery(q) == [kind |-> "ByDefQuery", q |-> q]

OtherFilter == [kind |-> "ByDefPath", q |-> <<>>]

\* defQueryTreeIndex.Covers: the number of ByDefQuery filters.
Covers(filters) == Cardinality({i \in 1..Len(filters) : filters[i].kind = "ByDefQuery"})

\* defQueryTreeIndex.Defs: the answer of getByQuery to the first ByDefQuery
\* filter, nil if it finds nothing or if there is no such filter.
IndexDefs(m, filters) ==
    LET qf == SelectSeq(filters, LAMBDA f : f.kind = "ByDefQuery") IN
    IF qf = <<>> THEN [out |-> "nil", map |-> EmptyMap]
    ELSE LET r == getByQuery(m, qf[1].q) IN
         IF r.out = "panic" THEN r
         ELSE IF r.out = "notfound" THEN [out |-> "nil", map |-> EmptyMap]
         ELSE [out |-> "ok", map |-> r.map]

\* The filter lists of the Defs calls.
IndexFilterLists ==
    SeqsUpTo({ByDefQuery(<<97>>), ByDefQuery(<<65, 98>>), ByDefQuery(<<98>>), OtherFilter}, 2)

NoDRes == [fs |-> <<>>, cov |-> 0, out |-> "none", map |-> EmptyMap]

\* x.Covers(filters) and x.Defs(filters...): a getByQuery is counted when
\* there is a ByDefQuery filter.
IndexDefsOp(filters) ==
    /\ counter < MaxCalls
    /\ counter' = IF Covers(filters) > 0 THEN counter + 1 ELSE counter
    /\ LET r == IndexDefs(mt, filters) IN
       dres' = [fs |-> filters, cov |-> Covers(filters), out |-> r.out, map |-> r.map]
    /\ UNCHANGED <<xs, mt, ready, qres, last, cpc, ctmp, ccalls,
                   uvars, tvars, hvars, rvars, fvars>>

\* One Build of a small tree, then Defs calls.
DefsNext ==
    \/ (~mt.built /\ \E input \in SmallInputs : \E fail \in BuildFails :
                          BuildOp(input, TRUE, fail))
    \/ \E filters \in IndexFilterLists : IndexDefsOp(filters)

\* ------------------------------------------------------------------------
\* Concurrent queries: the counter of getByQuery

\* The threads that query one index.
NThreads == 2

Threads == 1..NThreads

\* Thread t enters getByQuery on the built index and reads the counter
\* (the load of c_defQueryTreeIndex_getByQuery++).
LoadCounter(t) ==
    /\ mt.built /\ mt.hasT
    /\ cpc[t] = "idle" /\ ccalls[t] < MaxCalls
    /\ cpc' = [cpc EXCEPT ![t] = "loaded"]
    /\ ctmp' = [ctmp EXCEPT ![t] = counter]
    /\ UNCHANGED <<ccalls, dres, ivars, uvars, tvars, hvars, rvars, fvars>>

\* Thread t writes the counter back, one larger than it read it (the store
\* of the ++), and finishes the query, which only reads the index.
StoreCounter(t) ==
    /\ cpc[t] = "loaded"
    /\ counter' = ctmp[t] + 1
    /\ cpc' = [cpc EXCEPT ![t] = "idle"]
    /\ ccalls' = [ccalls EXCEPT ![t] = @ + 1]
    /\ UNCHANGED <<ctmp, dres, xs, mt, ready, qres, last, uvars, tvars, hvars, rvars, fvars>>

QueriesInit ==
    /\ dres = NoDRes
    /\ cpc = [t \in Threads |-> "idle"]
    /\ ctmp = [t \in Threads |-> 0]
    /\ ccalls = [t \in Threads |-> 0]

\* One Build, then the threads query.
RaceNext ==
    \/ (~mt.built /\ \E input \in SmallInputs : BuildOp(input, TRUE, "none"))
    \/ \E t \in Threads : LoadCounter(t)
    \/ \E t \in Threads : StoreCounter(t)

\* ------------------------------------------------------------------------
\* The specifications

Init == UnitInit /\ IndexInit /\ TreeInit /\ HandlesInit /\ ReposInit /\ FetchInit /\ QueriesInit

\* The unit store's data files.
Next == UnitNext

Spec == Init /\ [][Next]_vars

\* The tree-level def-query index.
SpecIndex == Init /\ [][IndexNext]_vars

\* The life of the tree-level def-query index: Build, Read, Ready.
SpecReady == Init /\ [][ReadyNext]_vars

\* The tree store.
SpecTree == Init /\ [][TreeNext]_vars

\* The file handles of the operations.
SpecHandles == Init /\ [][HandlesNext]_vars

\* The multi-repo store.
SpecRepos == Init /\ [][ReposNext]_vars

\* The random-access reads.
SpecFetch == Init /\ [][FetchNext]_vars

\* Covers and Defs of the tree-level index.
SpecDefs == Init /\ [][DefsNext]_vars

\* Threads that query one index at the same time.
SpecRace == Init /\ [][RaceNext]_vars
\* ------------------------------------------------------------------------
\* Claims about the unit store's data files

\* How many times v occurs in the sequence s.
Count(s, v) == Cardinality({i \in 1..Len(s) : s[i] = v})

\* C1: after Import has written the defs, Defs() with no filters returns
\* exactly the defs given, as many and in the caller's order.
C1_DefRoundTrip ==
    (res.op = "Defs" /\ res.fs = <<>> /\ defDat.exists)
        => (res.out = "ok" /\ res.defs = inDefs)

\* A Defs() of a def.dat that holds two different defs.
C1_Witness ==
    /\ res.op = "Defs" /\ res.fs = <<>> /\ defDat.exists
    /\ Len(inDefs) >= 2 /\ inDefs[1] # inDefs[2]
    /\ res.defs = inDefs

\* C2: Refs() with no filters returns the multiset of refs given to Import,
\* ordered by (File, Start, End), so that the refs of one file are contiguous.
C2_RefRoundTripSorted ==
    (res.op = "Refs" /\ res.fs = <<>> /\ refDat.exists)
        => /\ res.out = "ok"
           /\ Len(res.refs) = Len(inRefs)
           /\ \A v \in RefValues : Count(res.refs, v) = Count(inRefs, v)
           /\ \A i \in 1..Len(res.refs) : \A j \in (i + 1)..Len(res.refs) :
                  /\ ~RefLess(res.refs[j], res.refs[i])
                  /\ res.refs[i].File = res.refs[j].File
                        => \A k \in i..j : res.refs[k].File = res.refs[i].File

\* A Refs() of three refs of two files that were imported out of order.
C2_Witness ==
    /\ res.op = "Refs" /\ res.fs = <<>> /\ refDat.exists
    /\ Len(inRefs) = 3
    /\ RefLess(inRefs[3], inRefs[1])
    /\ inRefs[1].File = inRefs[3].File /\ inRefs[2].File # inRefs[1].File
    /\ res.refs # inRefs

\* C3: readDefs returns as many offsets as defs, the first 0, each next one
\* larger by the encoded length of the def before it, and they are the
\* offsets writeDefs returned.
C3_OffsetConsistency ==
    (res.op = "readDefs" /\ defDat.exists)
        => /\ res.out = "ok"
           /\ Len(res.ofs) = Len(res.defs)
           /\ (Len(res.ofs) > 0 => res.ofs[1] = 0)
           /\ \A i \in 1..(Len(res.ofs) - 1) :
                  /\ res.ofs[i + 1] - res.ofs[i] = Len(EncodeDef(res.defs[i]))
                  /\ res.ofs[i + 1] > res.ofs[i]
           /\ res.ofs = wDefOfs

\* A readDefs of a def.dat of three defs of two encoded lengths.
C3_Witness ==
    /\ res.op = "readDefs" /\ defDat.exists
    /\ Len(res.defs) = 3
    /\ Len(EncodeDef(res.defs[1])) # Len(EncodeDef(res.defs[2]))
    /\ res.ofs = wDefOfs

\* The refs of one file, in the order they were written.
RefsOfFile(file) == SelectSeq(wRefs, LAMBDA r : r.File = file)

\* C4: for every file that has a ref in ref.dat, refsAtByteRanges of the
\* file's entry of the fileByteRanges returns exactly the refs of that file
\* in (Start, End) order; the entry starts with the offset of the file's
\* first ref and its other values add up to the length of the file's block.
C4_FileRangeConsistency ==
    (res.op = "refsAtByteRanges" /\ refDat.exists /\ RefsOfFile(res.file) # <<>>)
        => /\ res.out = "ok"
           /\ res.refs = RefsOfFile(res.file)
           /\ res.file \in DOMAIN wFbr
           /\ LET br == wFbr[res.file]
                  first == CHOOSE i \in 1..Len(wRefs) : wRefs[i].File = res.file
                               /\ \A j \in 1..(i - 1) : wRefs[j].File # res.file
              IN /\ br[1] = wRefOfs[first]
                 /\ SumSeq(Tail(br)) =
                        SumSeq([i \in 1..Len(res.refs) |-> Len(EncodeRef(res.refs[i]))])

\* The same for the files whose name is not empty.
FileRangeConsistencyOfNamedFiles == res.file # <<>> => C4_FileRangeConsistency

\* The fileByteRanges of the refs written: each file mapped to the offset of
\* its first ref followed by the encoded length of each of its refs.
ExpectedFbr ==
    [f \in {wRefs[i].File : i \in 1..Len(wRefs)} |->
        LET idx == {i \in 1..Len(wRefs) : wRefs[i].File = f}
            first == CHOOSE i \in idx : \A j \in idx : i <= j
            own == SelectSeq(wRefs, LAMBDA r : r.File = f)
        IN <<wRefOfs[first]>> \o [k \in 1..Len(own) |-> Len(EncodeRef(own[k]))]]

\* C11: readRefs of a ref.dat that writeRefs wrote returns fileByteRanges
\* that map each file to [start, len_1, ..., len_k], start the offset of the
\* file's first ref and len_j the encoded length of its j-th ref, and that
\* equal the fileByteRanges writeRefs returned. Stated for refs that all
\* name their file (what writeRefs does with an empty File is C4's matter).
C11_ReadRefsFbr ==
    (res.op = "readRefs" /\ refDat.exists /\ \A i \in 1..Len(wRefs) : wRefs[i].File # <<>>)
        => /\ res.out = "ok"
           /\ res.fbr = ExpectedFbr
           /\ res.fbr = wFbr

\* What readRefs does get right: the refs as written and their offsets.
ReadRefsRefsAndOffsets ==
    (res.op = "readRefs" /\ refDat.exists)
        => (res.out = "ok" /\ res.refs = wRefs /\ res.ofs = wRefOfs)


\* ------------------------------------------------------------------------
\* Claims about the tree-level def-query index

\* The byte offsets a per-unit index holds.
OffsetsOf(qx) == UNION {Range(qx.Values[i]) : i \in 1..Len(qx.Values)}

\* The byte offsets that only per-unit indices of dropped units hold.
DroppedOnlyOffsets ==
    UNION {OffsetsOf(xs[u]) : u \in (DOMAIN xs) \ Range(mt.Units)}
        \ UNION {OffsetsOf(xs[u]) : u \in Range(mt.Units)}

\* C5: built over more than 255 units (with some term), the index holds
\* exactly the first 255 units in (Name, Type) order, and no byte offset that
\* only a dropped unit's index holds appears in a posting getByQuery returns.
C5_UnitCountBound ==
    (mt.built /\ mt.hasT /\ Cardinality(DOMAIN xs) > maxUnits)
        => /\ Len(mt.Units) = maxUnits
           /\ Range(mt.Units) \subseteq DOMAIN xs
           /\ \A i \in 1..(Len(mt.Units) - 1) : unitID2sLess(mt.Units[i], mt.Units[i + 1])
           /\ \A d \in (DOMAIN xs) \ Range(mt.Units) : unitID2sLess(mt.Units[maxUnits], d)
           /\ (qres.out = "found"
                 => \A u \in DOMAIN qres.map : Range(qres.map[u]) \cap DroppedOnlyOffsets = {})

\* The part of C5 about which units are kept.
KeptUnitsAreTheFirst ==
    (mt.built /\ mt.hasT /\ Cardinality(DOMAIN xs) > maxUnits)
        => /\ Len(mt.Units) = maxUnits
           /\ Range(mt.Units) \subseteq DOMAIN xs
           /\ \A i \in 1..(Len(mt.Units) - 1) : unitID2sLess(mt.Units[i], mt.Units[i + 1])
           /\ \A d \in (DOMAIN xs) \ Range(mt.Units) : unitID2sLess(mt.Units[maxUnits], d)

\* C6: for a query q that finds a node, every prefix p of q finds a node
\* too, and every (unit, byte offset) pair of getByQuery(q) is one of
\* getByQuery(p).
C6_QueryMonotone ==
    qres.out = "found"
        => \A n \in 0..Len(qres.q) :
               LET r == getByQuery(mt, SubSeq(qres.q, 1, n)) IN
               /\ r.out = "found"
               /\ \A u \in DOMAIN qres.map :
                      u \in DOMAIN r.map /\ Range(qres.map[u]) \subseteq Range(r.map[u])

\* A query of two characters that finds postings, fewer than its prefix of
\* one character.
C6_Witness ==
    /\ qres.out = "found" /\ Len(qres.q) = 2 /\ DOMAIN qres.map # {}
    /\ \E u \in DOMAIN qres.map :
           Range(qres.map[u]) # Range(getByQuery(mt, SubSeq(qres.q, 1, 1)).map[u])

\* ------------------------------------------------------------------------
\* Claims about the tree store

\* C7: while no unit has been imported, Units(nil) returns an error and no
\* units on a store that was never initialized, and an empty list and no
\* error once Import(nil, empty) has succeeded.
C7_TreeLifecycle ==
    (tres.op = "Units" /\ tUnits = {} /\ ~tFailed)
        => /\ tres.units = <<>>
           /\ tres.out = IF tInit THEN "ok" ELSE "err"

\* Units(nil) on a store that Import(nil, empty) initialized, with no unit.
C7_Witness ==
    /\ tres.op = "Units" /\ tUnits = {} /\ ~tFailed
    /\ tInit /\ tres.out = "ok" /\ tres.units = <<>>

\* Units(nil) on a store that nothing was imported into.
UninitializedWitness ==
    /\ tres.op = "Units" /\ tUnits = {} /\ ~tFailed
    /\ ~tInit /\ tres.out = "err"

\* The manifests Units(nil) returns are those of the imported units, each
\* once, in the walk order of their manifest paths.
UnitsListsImported ==
    (tres.op = "Units" /\ tUnits # {} /\ ~tFailed)
        => /\ tres.out = "ok"
           /\ Len(tres.units) = Cardinality(tUnits)
           /\ Range(tres.units) = tUnits
           /\ \A i \in 1..Len(tres.units) : \A j \in (i + 1)..Len(tres.units) :
                  WalkLess(unitFilename(tres.units[i].Type, tres.units[i].Name),
                           unitFilename(tres.units[j].Type, tres.units[j].Name))

\* openAllUnitStores recovers from each manifest path the (Type, Name) of the
\* imported unit whose unitFilename is that path.
IDsRecovered ==
    (tres.op = "openAllUnitStores" /\ tUnits # {} /\ ~tFailed)
        => /\ tres.out = "ok"
           /\ Len(tres.ids) = Cardinality(tUnits)
           /\ \A u \in tUnits : \E i \in 1..Len(tres.ids) :
                  /\ tres.paths[i] = unitFilename(u.Type, u.Name)
                  /\ tres.ids[i] = ID2(u)

\* C8: after successful imports of units with distinct (Type, Name),
\* Units(nil) returns exactly the manifests imported, one per unit, in
\* manifest-path walk order, and openAllUnitStores recovers the (Type, Name)
\* of each unit from its manifest path.
C8_UnitListingRoundTrip == UnitsListsImported /\ IDsRecovered

\* Whether every imported unit has a name that path.Clean leaves alone.
CleanNames == \A u \in tUnits : u.Name # <<>> /\ pathClean(u.Name) = u.Name

\* The round trip of C8 for units whose names are clean paths.
RoundTripOfCleanNames == CleanNames => C8_UnitListingRoundTrip

\* Two units with clean names listed, the deeper path first.
RoundTripOfCleanNamesWitness ==
    /\ tres.op = "openAllUnitStores" /\ ~tFailed /\ CleanNames
    /\ Cardinality(tUnits) = 2 /\ Len(tres.ids) = 2
    /\ Len(tres.ids[1].Name) = 3

\* ------------------------------------------------------------------------
\* Claims about file handles

\* C9: every handle an operation opened is closed exactly once by the time
\* the call that opened it has returned, whether it returned an error or
\* not; no handle is closed twice, and none is open while no operation is in
\* progress.
C9_HandleRelease ==
    \A h \in 1..Len(hHandles) :
        /\ hHandles[h].closes <= 1
        /\ hHandles[h].open <=> hHandles[h].closes = 0
        /\ hHandles[h].depth > Len(hStack) => (~hHandles[h].open /\ hHandles[h].closes = 1)

\* fsTreeStore.Import has returned an error after it had created the
\* manifest, def.dat and ref.dat.
C9_Witness ==
    /\ hStack = <<>> /\ hLast = [op |-> "TreeImport", err |-> TRUE]
    /\ Len(hHandles) = 3
    /\ \A h \in 1..3 : ~hHandles[h].open /\ hHandles[h].closes = 1

\* ------------------------------------------------------------------------
\* Claims about the multi-repo store

\* C10: Repos with filters that scope to exactly one repo r returns [r] if r
\* is stored, whatever other repos are stored, and nothing otherwise; with
\* filters that scope to more than one repo it returns nothing.
C10_ScopedRepoListing ==
    rres.op = "Repos"
        => /\ Len(rres.scope) = 1
                => rres.repos = IF rres.scope[1] \in rStored THEN <<rres.scope[1]>> ELSE <<>>
           /\ Len(rres.scope) > 1 => rres.repos = <<>>

\* The parts of C10 that hold: never a repo other than r, nothing if r is
\* not stored, nothing for more than one repo.
ScopedListingNothingExtra ==
    rres.op = "Repos"
        => /\ Len(rres.scope) = 1
                => /\ Range(rres.repos) \subseteq {rres.scope[1]} \cap rStored
                   /\ Len(rres.repos) <= 1
           /\ Len(rres.scope) > 1 => rres.repos = <<>>

\* Without filters Repos lists every stored repo.
UnscopedListsAll ==
    (rres.op = "Repos" /\ rres.scope = <<>>)
        => (Range(rres.repos) = rStored /\ Len(rres.repos) = Cardinality(rStored))

\* The byte offsets unit u's per-unit index holds for the terms that have
\* the word w as a prefix.
OffsetsFor(u, w) ==
    UNION {Range(xs[u].Values[i]) : i \in {j \in 1..Len(xs[u].terms) : IsPrefix(w, xs[u].terms[j])}}

\* The distinct terms of the per-unit indices.
AllTerms == UNION {Range(xs[u].terms) : u \in DOMAIN xs}

\* C12: built over at most 255 units, Values has one entry per distinct term
\* of the per-unit indices, in sorted order, and getByQuery(q) maps every
\* unit to exactly the byte offsets its per-unit index holds for the terms
\* with the lowercased q as a prefix; a unit with no such term is absent.
C12_PostingsCorrect ==
    (mt.built /\ mt.hasT /\ Cardinality(DOMAIN xs) <= maxUnits)
        => /\ Len(mt.Values) = Cardinality(AllTerms)
           /\ Range(mt.terms) = AllTerms
           /\ \A i \in 1..(Len(mt.terms) - 1) : StrLess(mt.terms[i], mt.terms[i + 1])
           /\ \A i \in 1..Len(mt.terms) :
                  {mt.Units[mt.Values[i][k].Unit + 1] : k \in 1..Len(mt.Values[i])}
                      = {u \in DOMAIN xs : mt.terms[i] \in Range(xs[u].terms)}
           /\ (qres.out \in {"found", "notfound"}
                 => LET w == ToLower(qres.q)
                        having == {u \in DOMAIN xs : \E t \in Range(xs[u].terms) : IsPrefix(w, t)}
                    IN /\ (qres.out = "found") <=> (w = <<>> \/ having # {})
                       /\ DOMAIN qres.map = having
                       /\ \A u \in having :
                              /\ Range(qres.map[u]) = OffsetsFor(u, w)
                              /\ Len(qres.map[u]) = Cardinality(OffsetsFor(u, w)))

\* The query "A" on an index of 255 units: one unit has two terms that begin
\* with "a", with three byte offsets, and another unit has terms but none
\* that begins with "a".
C12_Witness ==
    /\ mt.built /\ mt.hasT /\ Cardinality(DOMAIN xs) = maxUnits
    /\ qres.out = "found" /\ qres.q = <<65>>
    /\ \E u \in DOMAIN qres.map : Len(qres.map[u]) = 3
    /\ \E u \in DOMAIN xs : xs[u].hasT /\ u \notin DOMAIN qres.map

\* ------------------------------------------------------------------------
\* Claims about the random-access reads

\* The calls a read of the items makes on a Fetcher when nothing fails: for
\* each offset a Fetch of the estimate, a Seek and a Decode; for each byte
\* range a Fetch of the summed lengths, a Seek and a Decode per length.
ExpectedCalls ==
    Flatten([i \in 1..Len(fres.items) |->
        IF fres.op = "refsAtByteRanges"
        THEN LET br == fres.items[i] IN
             <<FetchCall(br[1], br[1] + SumSeq(Tail(br))), SeekCall(br[1])>>
                 \o [k \in 1..(Len(br) - 1) |-> DecodeCall]
        ELSE LET o == fres.items[i]
                 e == IF fres.op = "defsAtOffsets" THEN byteEstimateDefs ELSE byteEstimateRefs
             IN <<FetchCall(o, o + e), SeekCall(o), DecodeCall>>])

\* C13: on a file that supports Fetch, a read makes for each offset exactly
\* one Fetch(o, o + estimate), then one Seek to o and one decode, and for
\* each byte range one Fetch(start, start + sum of lengths), then one Seek;
\* no Seek comes before its Fetch, and a call that fails is the last call
\* made: a failed Fetch is followed by no Seek and no decode.
C13_FetchBeforeSeek ==
    (fres.fetcher /\ fres.out \in {"ok", "err"})
        => /\ fres.out = "ok" => fLog = ExpectedCalls
           /\ fres.out = "err"
                => /\ fres.failAt = Len(fLog)
                   /\ Len(fLog) <= Len(ExpectedCalls)
                   /\ fLog = SubSeq(ExpectedCalls, 1, Len(fLog))
           /\ \A k \in 1..Len(fLog) :
                  fLog[k].call = "Seek"
                      => (k > 1 /\ fLog[k - 1].call = "Fetch" /\ fLog[k - 1].a = fLog[k].a)

\* refsAtByteRanges of two byte ranges whose second Fetch fails: the calls
\* of the first range, then the Fetch, and nothing after it.
C13_Witness ==
    /\ fres.op = "refsAtByteRanges" /\ fres.fetcher /\ fres.out = "err"
    /\ Len(fres.items) = 2 /\ Len(fLog) = 5
    /\ fLog[5].call = "Fetch" /\ fLog[5].b = fLog[5].a + 13

\* defsAtOffsets of two offsets that succeeds.
DefsAtOffsetsWitness ==
    /\ fres.op = "defsAtOffsets" /\ fres.fetcher /\ fres.out = "ok"
    /\ Len(fres.items) = 2 /\ Len(fLog) = 6

\* ------------------------------------------------------------------------
\* Claims about the readiness of the tree-level index

\* C14: a panic inside Build comes back as an error, and Ready() is true
\* only if the most recent Build or Read returned no error.
C14_ReadyFollowsLast ==
    /\ last.op = "Build" => last.out \in {"ok", "err"}
    /\ (last.op # "" /\ ready) => last.out = "ok"

\* What holds of Build's panics alone: they come back as errors.
BuildPanicIsAnError == last.op = "Build" => last.out \in {"ok", "err"}

\* A first Build or Read that fails leaves the index not ready.
NotReadyWithoutSuccess == (ready => mt.built)

\* C17: whenever Ready() is true, getByQuery(q) returns for every q without
\* panicking, and on an index of no terms every query reports not found.
C17_ReadyAlwaysAnswers ==
    ready => \A q \in Queries :
                 LET r == getByQuery(mt, q) IN
                 /\ r.out # "panic"
                 /\ mt.Values = <<>> => r.out = "notfound"

\* What holds: a ready index that has a MinTree answers every query.
ReadyWithTreeAnswers ==
    (ready /\ mt.hasT) => \A q \in Queries : getByQuery(mt, q).out # "panic"

\* ------------------------------------------------------------------------
\* Claims about Covers and Defs, and about concurrent queries

\* The ByDefQuery filters of the last Defs call.
QueryFilters == SelectSeq(dres.fs, LAMBDA f : f.kind = "ByDefQuery")

\* C15: every filter that Covers counts is applied by Defs: each byte offset
\* Defs returns for a unit is one the unit's index holds for every
\* ByDefQuery filter of the list, so with two such filters the offsets
\* satisfy both queries.
C15_CoversMatchesDefs ==
    (dres.out = "ok" /\ mt.hasT)
        => /\ dres.cov = Len(QueryFilters)
           /\ \A u \in DOMAIN dres.map : \A i \in 1..Len(QueryFilters) :
                  Range(dres.map[u]) \subseteq OffsetsFor(u, ToLower(QueryFilters[i].q))

\* What holds: the offsets satisfy the first ByDefQuery filter.
FirstQueryFilterApplied ==
    (dres.out = "ok" /\ mt.hasT)
        => \A u \in DOMAIN dres.map :
               Range(dres.map[u]) = OffsetsFor(u, ToLower(QueryFilters[1].q))

\* C16: concurrent queries write no shared state without synchronisation:
\* when no query is in progress the counter equals the number of calls made.
C16_CounterCountsCalls ==
    (\A t \in Threads : cpc[t] = "idle")
        => counter = SumSeq([t \in Threads |-> ccalls[t]])

\* What holds: the counter never exceeds the number of calls begun.
CounterAtMostCalls ==
    counter <= SumSeq([t \in Threads |-> ccalls[t] + IF cpc[t] = "loaded" THEN 1 ELSE 0])

====
